---------------------------- MODULE Spec2Model ----------------------------
(***************************************************************************)
(* Model of calibre_plugins/find_duplicates/config.py: the per-library     *)
(* configuration accessors of the Find Duplicates plugin.                  *)
(*                                                                         *)
(* plugin_prefs is the legacy global JSON file (a JSONConfig, a dict);     *)
(* db_prefs is the preference store of the current library's database      *)
(* (db.prefs, a dict keyed by namespace and key); book_ids is the set of   *)
(* ids for which db.data.has_id is true.                                   *)
(*                                                                         *)
(* Python dicts are functions whose DOMAIN is the set of keys present.     *)
(* Both host stores hand out the object they hold, not a copy: a record    *)
(* obtained from db.prefs and changed in place is the record db.prefs      *)
(* holds.  Inside one call this sharing is tracked by the field `shared`   *)
(* of the call's local state; between calls every change has been written  *)
(* back, so the stores are values.                                         *)
(*                                                                         *)
(* Schema versions are held in tenths: 15 stands for 1.5.                  *)
(***************************************************************************)
EXTENDS Integers, Sequences, FiniteSets, TLC

VARIABLES plugin_prefs, db_prefs, book_ids, op, arg, ret, pre, before_op

vars == <<plugin_prefs, db_prefs, book_ids, op, arg, ret, pre, before_op>>

(***************************************************************************)
(* Constants of config.py                                                  *)
(***************************************************************************)
PREFS_NAMESPACE == "FindDuplicatesPlugin"
PREFS_KEY_SETTINGS == "settings"

KEY_LAST_LIBRARY_COMPARE == "lastLibraryCompare"
KEY_BOOK_EXEMPTIONS == "bookExemptions"
KEY_AUTHOR_EXEMPTIONS == "authorExemptions"

KEY_SCHEMA_VERSION == "SchemaVersion"
DEFAULT_SCHEMA_VERSION == 15

DEFAULT_LIBRARY_VALUES ==
    [k \in {KEY_LAST_LIBRARY_COMPARE, KEY_BOOK_EXEMPTIONS,
            KEY_AUTHOR_EXEMPTIONS, KEY_SCHEMA_VERSION} |->
        CASE k = KEY_LAST_LIBRARY_COMPARE -> ""
          [] k = KEY_BOOK_EXEMPTIONS -> <<>>
          [] k = KEY_AUTHOR_EXEMPTIONS -> <<>>
          [] k = KEY_SCHEMA_VERSION -> DEFAULT_SCHEMA_VERSION]

(***************************************************************************)
(* Python dict primitives                                                  *)
(***************************************************************************)
EmptyDict == [k \in {} |-> 0]

DictHas(d, k) == k \in DOMAIN d

DictGet(d, k, default) == IF k \in DOMAIN d THEN d[k] ELSE default

DictSet(d, k, v) == [x \in (DOMAIN d) \cup {k} |-> IF x = k THEN v ELSE d[x]]

DictDel(d, k) == [x \in (DOMAIN d) \ {k} |-> d[x]]

(***************************************************************************)
(* The host's per-library store, as config.py calls it                     *)
(***************************************************************************)
get_namespaced(prefs, namespace, key, default) ==
    DictGet(prefs, <<namespace, key>>, default)

set_namespaced(prefs, namespace, key, val) ==
    DictSet(prefs, <<namespace, key>>, val)

\* get_library_uuid(db): the uuid of the one library database modelled
CurrentLibrary == "lib1"


(***************************************************************************)
(* set_library_config(db, library_config)                                  *)
(***************************************************************************)
set_library_config(prefs, library_config) ==
    set_namespaced(prefs, PREFS_NAMESPACE, PREFS_KEY_SETTINGS, library_config)

\* Variant of migrate_library_config_if_required without the early return:
\* the record is marked and written whatever its schema version.
migrate_always_writes(prefs, library_config) ==
    LET marked == DictSet(library_config, KEY_SCHEMA_VERSION,
                          DEFAULT_SCHEMA_VERSION)
    IN  [db_prefs |-> set_library_config(prefs, marked),
         library_config |-> marked, written |-> TRUE]

(***************************************************************************)
(* migrate_library_config_if_required(db, library_config).  The result     *)
(* carries the store, the record as the call leaves it, and whether the    *)
(* record was written to the store.                                        *)
(***************************************************************************)
migrate_library_config_if_required(prefs, library_config) ==
    LET schema_version == DictGet(library_config, KEY_SCHEMA_VERSION, 0)
    IN  IF schema_version = DEFAULT_SCHEMA_VERSION
        THEN [db_prefs |-> prefs, library_config |-> library_config,
              written |-> FALSE]
        ELSE LET marked == DictSet(library_config, KEY_SCHEMA_VERSION,
                                   DEFAULT_SCHEMA_VERSION)
             IN  [db_prefs |-> set_library_config(prefs, marked),
                  library_config |-> marked, written |-> TRUE]

\* Variant of cleanup_from_json that deletes the 'libraries' key without
\* looking at whether other libraries remain.
cleanup_drops_all_libraries(prefs, library_id) == DictDel(prefs, "libraries")

(***************************************************************************)
(* get_library_config, lines 82-87: the legacy file once the entry of      *)
(* library_id is deleted from plugin_prefs['libraries'].                   *)
(***************************************************************************)
cleanup_from_json(prefs, library_id) ==
    LET libraries == DictDel(prefs["libraries"], library_id)
    IN  IF Cardinality(DOMAIN libraries) = 0
        THEN DictDel(prefs, "libraries")
        ELSE DictSet(prefs, "libraries", libraries)

(***************************************************************************)
(* get_library_config(db).  The result is the state the call leaves:       *)
(* both stores, the record returned, and whether that record is the        *)
(* object db.prefs holds (it was read from db.prefs, or written to it).    *)
(***************************************************************************)
get_library_config(pprefs, dprefs, library_id) ==
    LET in_json == /\ DictHas(pprefs, "libraries")
                   /\ DictHas(pprefs["libraries"], library_id)
        in_db == DictHas(dprefs, <<PREFS_NAMESPACE, PREFS_KEY_SETTINGS>>)
        library_config ==
            IF in_json
            THEN pprefs["libraries"][library_id]
            ELSE get_namespaced(dprefs, PREFS_NAMESPACE, PREFS_KEY_SETTINGS,
                                DEFAULT_LIBRARY_VALUES)
        m == migrate_library_config_if_required(dprefs, library_config)
    IN  [plugin_prefs |-> IF in_json THEN cleanup_from_json(pprefs, library_id)
                          ELSE pprefs,
         db_prefs |-> m.db_prefs,
         library_config |-> m.library_config,
         shared |-> (~in_json /\ in_db) \/ m.written]

\* Variant of set_exemption_list that extends the list held at config_key
\* instead of replacing it.
set_exemption_list_merging(pprefs, dprefs, library_id, config_key, exemptions_list) ==
    LET c == get_library_config(pprefs, dprefs, library_id)
        library_config ==
            DictSet(c.library_config, config_key,
                    DictGet(c.library_config, config_key, <<>>) \o exemptions_list)
    IN  [plugin_prefs |-> c.plugin_prefs,
         db_prefs |-> set_library_config(c.db_prefs, library_config)]

(***************************************************************************)
(* set_exemption_list(db, config_key, exemptions_list)                     *)
(***************************************************************************)
set_exemption_list(pprefs, dprefs, library_id, config_key, exemptions_list) ==
    LET c == get_library_config(pprefs, dprefs, library_id)
        library_config == DictSet(c.library_config, config_key, exemptions_list)
    IN  [plugin_prefs |-> c.plugin_prefs,
         db_prefs |-> set_library_config(c.db_prefs, library_config)]

(***************************************************************************)
(* Local state of get_exemption_lists: s.library_config is the local       *)
(* record, s.shared says that it is the object db.prefs holds.             *)
(*   InPlace(s, lc): the local record changed in place to lc; db.prefs     *)
(*     sees the change when the record is shared.                          *)
(*   AfterCall(s, w): the local state once a nested set_exemption_list     *)
(*     left the stores as w; a shared record is the one that call changed  *)
(*     (the legacy entry is gone by then, so the call reads db.prefs).     *)
(***************************************************************************)
InPlace(s, lc) ==
    [s EXCEPT !.library_config = lc,
              !.db_prefs = IF s.shared THEN set_library_config(@, lc) ELSE @]

AfterCall(s, w) ==
    [plugin_prefs |-> w.plugin_prefs,
     db_prefs |-> w.db_prefs,
     library_config |->
        IF s.shared
        THEN get_namespaced(w.db_prefs, PREFS_NAMESPACE, PREFS_KEY_SETTINGS,
                            s.library_config)
        ELSE s.library_config,
     shared |-> s.shared]

(***************************************************************************)
(* get_exemption_lists, lines 102-104 and 105-107: a pre-v1.1 map is       *)
(* deleted from the local record and the exemption list is set empty.      *)
(***************************************************************************)
discard_previous_map(s, library_id, old_key, config_key) ==
    IF DictHas(s.library_config, old_key)
    THEN LET d == InPlace(s, DictDel(s.library_config, old_key))
         IN  AfterCall(d, set_exemption_list(d.plugin_prefs, d.db_prefs,
                                             library_id, config_key, <<>>))
    ELSE s

(***************************************************************************)
(* get_exemption_lists, line 113: the ids of old_list that the database    *)
(* has.                                                                    *)
(***************************************************************************)
existing_ids(old_list, ids) == SelectSeq(old_list, LAMBDA book_id : book_id \in ids)

(***************************************************************************)
(* get_exemption_lists, lines 109-119: the pruning of the book exemptions. *)
(* The result is the local state with the list returned as book.           *)
(***************************************************************************)
prune_book_exemptions(s, library_id, ids) ==
    LET book_exemptions == DictGet(s.library_config, KEY_BOOK_EXEMPTIONS, <<>>)
        is_changed == \E idx \in 1..Len(book_exemptions) :
                          Len(book_exemptions[idx]) #
                              Len(existing_ids(book_exemptions[idx], ids))
        replaced == [idx \in 1..Len(book_exemptions) |->
                        existing_ids(book_exemptions[idx], ids)]
        kept == SelectSeq(replaced, LAMBDA l : Len(l) > 0)
    IN  IF is_changed
        THEN LET d == InPlace(s, DictSet(s.library_config, KEY_BOOK_EXEMPTIONS,
                                         replaced))
             IN  [st |-> AfterCall(d, set_exemption_list(d.plugin_prefs,
                                        d.db_prefs, library_id,
                                        KEY_BOOK_EXEMPTIONS, kept)),
                  book |-> kept]
        ELSE [st |-> s, book |-> book_exemptions]

(***************************************************************************)
(* get_exemption_lists(db)                                                 *)
(***************************************************************************)
get_exemption_lists(pprefs, dprefs, ids, library_id) ==
    LET c == get_library_config(pprefs, dprefs, library_id)
        b == discard_previous_map(c, library_id, "bookNotDuplicates",
                                  KEY_BOOK_EXEMPTIONS)
        a == discard_previous_map(b, library_id, "authorNotDuplicates",
                                  KEY_AUTHOR_EXEMPTIONS)
        p == prune_book_exemptions(a, library_id, ids)
    IN  [plugin_prefs |-> p.st.plugin_prefs,
         db_prefs |-> p.st.db_prefs,
         book_exemptions |-> p.book,
         author_exemptions |-> DictGet(p.st.library_config,
                                       KEY_AUTHOR_EXEMPTIONS, <<>>)]

(***************************************************************************)
(* ConfigWidget.save_settings                                              *)
(***************************************************************************)
save_settings(pprefs) ==
    IF DictHas(pprefs, "options") THEN DictDel(pprefs, "options") ELSE pprefs

(***************************************************************************)
(* Bounds and the contents the stores may start with                       *)
(***************************************************************************)
MaxBookId == 2

BookIds == 1..MaxBookId

\* an exemption group a caller saves: two book ids in ascending order
PairGroups == {g \in BookIds \X BookIds : g[1] < g[2]}

\* the book exemption lists a caller saves: at most two groups, the second
\* one of a single id (what an earlier pruning may have left)
BookLists == {<<>>} \cup {<<g>> : g \in PairGroups} \cup
             {<<g, <<MaxBookId>> >> : g \in PairGroups}

AuthorLists == {<<>>, << <<"a1", "a2">> >>}

\* a record built from the keys present
Record(version, compare, books, authors, old_keys) ==
    [k \in {KEY_SCHEMA_VERSION : x \in version} \cup
           {KEY_LAST_LIBRARY_COMPARE : x \in compare} \cup
           {KEY_BOOK_EXEMPTIONS : x \in books} \cup
           {KEY_AUTHOR_EXEMPTIONS : x \in authors} \cup old_keys |->
        CASE k = KEY_SCHEMA_VERSION -> CHOOSE x \in version : TRUE
          [] k = KEY_LAST_LIBRARY_COMPARE -> CHOOSE x \in compare : TRUE
          [] k = KEY_BOOK_EXEMPTIONS -> CHOOSE x \in books : TRUE
          [] k = KEY_AUTHOR_EXEMPTIONS -> CHOOSE x \in authors : TRUE
          [] OTHER -> "map"]

\* each argument of Record is the empty set (key absent) or a singleton
Opt(S) == {{}} \cup {{x} : x \in S}

StoredRecords ==
    {Record(v, c, b, a, o) :
        v \in Opt({10, DEFAULT_SCHEMA_VERSION}),
        c \in {{"lib2"}},
        b \in Opt({<< <<1, MaxBookId>> >>}),
        a \in {{<< <<"a1", "a2">> >>}},
        o \in {{}, {"bookNotDuplicates"}, {"authorNotDuplicates"}}}

LegacyRecords ==
    {Record(v, c, b, a, o) :
        v \in Opt({10, DEFAULT_SCHEMA_VERSION}),
        c \in {{""}},
        b \in {{<< <<1>> >>}},
        a \in {{<< <<"a2", "a3">> >>}},
        o \in {{}, {"bookNotDuplicates", "authorNotDuplicates"}}}

OtherLibraryRecord == Record({10}, {""}, {<<>>}, {<<>>}, {})

\* The legacy file is read as earlier versions of the plugin left it: its
\* 'libraries' dict may be empty (DEFAULT_LIBRARIES_VALUES), may hold entries
\* of other libraries, and an entry carries whatever schema version the
\* plugin that wrote it had, the current one included.
LegacyLibraries ==
    {EmptyDict} \cup
    {[l \in {"lib2"} |-> OtherLibraryRecord]} \cup
    {[l \in {CurrentLibrary} |-> r] : r \in LegacyRecords} \cup
    {[l \in {CurrentLibrary, "lib2"} |->
        IF l = CurrentLibrary THEN r ELSE OtherLibraryRecord] : r \in LegacyRecords}

LegacyFiles ==
    {EmptyDict, [k \in {"options"} |-> "map"]} \cup
    {[k \in {"libraries"} |-> ls] : ls \in LegacyLibraries}

LibraryStores ==
    {EmptyDict} \cup
    {set_library_config(EmptyDict, r) : r \in StoredRecords}

NoArg == [config_key |-> "", exemptions_list |-> <<>>]

NoRet == [library_config |-> EmptyDict, book_exemptions |-> <<>>,
          author_exemptions |-> <<>>]

(***************************************************************************)
(* The state machine: one action per entry point of config.py.  op, arg    *)
(* and ret record the last call, its arguments and what it returned; pre   *)
(* holds both stores as they were when the call began.  before_op is the   *)
(* call made before the last one; it is recorded under SpecTrail only.     *)
(***************************************************************************)
Init ==
    /\ plugin_prefs \in LegacyFiles
    /\ db_prefs \in LibraryStores
    /\ book_ids \in SUBSET BookIds
    /\ op = "none"
    /\ arg = NoArg
    /\ ret = NoRet
    /\ pre = [plugin_prefs |-> plugin_prefs, db_prefs |-> db_prefs]
    /\ before_op = "none"

Called(name, a, r) ==
    /\ op' = name
    /\ arg' = a
    /\ ret' = r
    /\ pre' = [plugin_prefs |-> plugin_prefs, db_prefs |-> db_prefs]
    /\ UNCHANGED book_ids

GetLibraryConfig ==
    LET r == get_library_config(plugin_prefs, db_prefs, CurrentLibrary)
    IN  /\ plugin_prefs' = r.plugin_prefs
        /\ db_prefs' = r.db_prefs
        /\ Called("get_library_config", NoArg,
                  [NoRet EXCEPT !.library_config = r.library_config])

GetExemptionLists ==
    LET r == get_exemption_lists(plugin_prefs, db_prefs, book_ids, CurrentLibrary)
    IN  /\ plugin_prefs' = r.plugin_prefs
        /\ db_prefs' = r.db_prefs
        /\ Called("get_exemption_lists", NoArg,
                  [NoRet EXCEPT !.book_exemptions = r.book_exemptions,
                                !.author_exemptions = r.author_exemptions])

SetExemptionList ==
    \E config_key \in {KEY_BOOK_EXEMPTIONS, KEY_AUTHOR_EXEMPTIONS} :
      \E exemptions_list \in IF config_key = KEY_BOOK_EXEMPTIONS
                             THEN BookLists ELSE AuthorLists :
        LET r == set_exemption_list(plugin_prefs, db_prefs, CurrentLibrary,
                                    config_key, exemptions_list)
        IN  /\ plugin_prefs' = r.plugin_prefs
            /\ db_prefs' = r.db_prefs
            /\ Called("set_exemption_list",
                      [config_key |-> config_key,
                       exemptions_list |-> exemptions_list], NoRet)

SaveSettings ==
    /\ plugin_prefs' = save_settings(plugin_prefs)
    /\ db_prefs' = db_prefs
    /\ Called("save_settings", NoArg, NoRet)

Next ==
    \/ GetLibraryConfig /\ UNCHANGED before_op
    \/ GetExemptionLists /\ UNCHANGED before_op
    \/ SetExemptionList /\ UNCHANGED before_op
    \/ SaveSettings /\ UNCHANGED before_op

NextTrail ==
    \/ GetLibraryConfig /\ before_op' = op
    \/ GetExemptionLists /\ before_op' = op
    \/ SetExemptionList /\ before_op' = op
    \/ SaveSettings /\ before_op' = op

Spec == Init /\ [][Next]_vars

SpecTrail == Init /\ [][NextTrail]_vars

(***************************************************************************)
(* Vocabulary of the properties                                            *)
(***************************************************************************)
SettingsKey == <<PREFS_NAMESPACE, PREFS_KEY_SETTINGS>>

HasStored(dprefs) == DictHas(dprefs, SettingsKey)

StoredRecord(dprefs) == dprefs[SettingsKey]

HasLegacyEntry(pprefs) ==
    /\ DictHas(pprefs, "libraries")
    /\ DictHas(pprefs["libraries"], CurrentLibrary)

LegacyEntry(pprefs) == pprefs["libraries"][CurrentLibrary]

\* the legacy entries of the libraries other than the current one
OtherEntries(pprefs) ==
    IF DictHas(pprefs, "libraries")
    THEN DictDel(pprefs["libraries"], CurrentLibrary)
    ELSE EmptyDict

\* the record a call starts from: the legacy entry, else the stored record,
\* else the defaults
LibraryRecord(pprefs, dprefs) ==
    IF HasLegacyEntry(pprefs) THEN LegacyEntry(pprefs)
    ELSE IF HasStored(dprefs) THEN StoredRecord(dprefs)
    ELSE DEFAULT_LIBRARY_VALUES

\* records r1 and r2 agree on key k: both lack it, or both hold the same value
SameAt(r1, r2, k) ==
    /\ DictHas(r1, k) <=> DictHas(r2, k)
    /\ DictHas(r1, k) => r1[k] = r2[k]

IsCurrent(r) ==
    DictHas(r, KEY_SCHEMA_VERSION) /\ r[KEY_SCHEMA_VERSION] = DEFAULT_SCHEMA_VERSION

AllIdsExist(list) ==
    \A i \in 1..Len(list) : \A j \in 1..Len(list[i]) : list[i][j] \in book_ids

(***************************************************************************)
(* C1.  Whenever the legacy file holds an entry for the current library,   *)
(* after get_library_config the per-library store holds that entry's data  *)
(* (same bookExemptions, authorExemptions and lastLibraryCompare, with     *)
(* SchemaVersion current), whatever schema version the entry carries.      *)
(***************************************************************************)
C1_MigrationStoresEntry ==
    (op = "get_library_config" /\ HasLegacyEntry(pre.plugin_prefs)) =>
        /\ HasStored(db_prefs)
        /\ \A k \in {KEY_BOOK_EXEMPTIONS, KEY_AUTHOR_EXEMPTIONS,
                     KEY_LAST_LIBRARY_COMPARE} :
              SameAt(StoredRecord(db_prefs), LegacyEntry(pre.plugin_prefs), k)
        /\ IsCurrent(StoredRecord(db_prefs))

(***************************************************************************)
(* C2, as stated.  After get_library_config the legacy file has no entry   *)
(* for the current library, every other library's entry is unchanged, and  *)
(* the 'libraries' key is absent exactly when no other library's entry     *)
(* remains.                                                                *)
(***************************************************************************)
C2_Original ==
    op = "get_library_config" =>
        /\ ~HasLegacyEntry(plugin_prefs)
        /\ OtherEntries(plugin_prefs) = OtherEntries(pre.plugin_prefs)
        /\ ~DictHas(plugin_prefs, "libraries") <=>
               DOMAIN OtherEntries(plugin_prefs) = {}

(***************************************************************************)
(* C2, amended.  After get_library_config the legacy file has no entry     *)
(* for the current library and every other library's entry is unchanged;   *)
(* when the current library had an entry, the 'libraries' key is removed   *)
(* exactly when no other library's entry remains; when it had none, the    *)
(* legacy file is left as it was.                                          *)
(***************************************************************************)
C2_MigrationIsOneTime ==
    op = "get_library_config" =>
        /\ ~HasLegacyEntry(plugin_prefs)
        /\ OtherEntries(plugin_prefs) = OtherEntries(pre.plugin_prefs)
        /\ IF HasLegacyEntry(pre.plugin_prefs)
           THEN ~DictHas(plugin_prefs, "libraries") <=>
                    DOMAIN OtherEntries(plugin_prefs) = {}
           ELSE plugin_prefs = pre.plugin_prefs

\* the last library of the legacy file has been migrated
C2_Witness ==
    /\ op = "get_library_config"
    /\ HasLegacyEntry(pre.plugin_prefs)
    /\ ~DictHas(plugin_prefs, "libraries")

(***************************************************************************)
(* C3.  A get_library_config that starts from a stored record of the       *)
(* current version and no legacy entry writes to neither store; and a      *)
(* get_library_config that follows a get_library_config changes neither    *)
(* store and returns the same record.                                      *)
(***************************************************************************)
C3_MigrationIdempotent ==
    [][ /\ ( /\ op' = "get_library_config"
             /\ HasStored(db_prefs)
             /\ IsCurrent(StoredRecord(db_prefs))
             /\ ~HasLegacyEntry(plugin_prefs) )
            => UNCHANGED <<plugin_prefs, db_prefs>>
        /\ (op = "get_library_config" /\ op' = "get_library_config")
            => /\ UNCHANGED <<plugin_prefs, db_prefs>>
               /\ ret'.library_config = ret.library_config ]_vars

(***************************************************************************)
(* C4.  After get_exemption_lists every book id of the returned book       *)
(* exemptions, and of the bookExemptions the per-library store holds,      *)
(* exists in the database; and every returned group is a group of the      *)
(* library's record with exactly its missing ids removed.                  *)
(***************************************************************************)
C4_StaleIdsPruned ==
    op = "get_exemption_lists" =>
        /\ AllIdsExist(ret.book_exemptions)
        /\ HasStored(db_prefs) =>
               AllIdsExist(DictGet(StoredRecord(db_prefs), KEY_BOOK_EXEMPTIONS, <<>>))
        /\ LET before == DictGet(LibraryRecord(pre.plugin_prefs, pre.db_prefs),
                                 KEY_BOOK_EXEMPTIONS, <<>>)
           IN  \A i \in 1..Len(ret.book_exemptions) :
                 \E j \in 1..Len(before) :
                    ret.book_exemptions[i] = existing_ids(before[j], book_ids)

\* get_exemption_lists discards the pre-v1.1 map old_key of the library's
\* record: the stored record lacks the map and holds an empty list at
\* config_key, and the list returned is empty
Discarded(old_key, config_key, returned) ==
    DictHas(LibraryRecord(plugin_prefs, db_prefs), old_key) =>
        /\ HasStored(db_prefs')
        /\ ~DictHas(StoredRecord(db_prefs'), old_key)
        /\ DictGet(StoredRecord(db_prefs'), config_key, <<"none">>) = <<>>
        /\ returned = <<>>

(***************************************************************************)
(* C5.  If the library's record contains 'bookNotDuplicates'               *)
(* (respectively 'authorNotDuplicates'), then after get_exemption_lists    *)
(* the stored record no longer contains that key, the stored               *)
(* bookExemptions (respectively authorExemptions) is empty and the list    *)
(* returned is empty; a set_exemption_list that follows, followed by       *)
(* get_exemption_lists, is not cleared again: the list that was set is     *)
(* returned, less the book ids the database lacks.                         *)
(***************************************************************************)
C5_OldMapsDiscarded ==
    [][ /\ op' = "get_exemption_lists" =>
            /\ Discarded("bookNotDuplicates", KEY_BOOK_EXEMPTIONS,
                         ret'.book_exemptions)
            /\ Discarded("authorNotDuplicates", KEY_AUTHOR_EXEMPTIONS,
                         ret'.author_exemptions)
        /\ ( /\ before_op = "get_exemption_lists"
             /\ op = "set_exemption_list"
             /\ op' = "get_exemption_lists" ) =>
            IF arg.config_key = KEY_BOOK_EXEMPTIONS
            THEN ret'.book_exemptions =
                    SelectSeq([i \in 1..Len(arg.exemptions_list) |->
                                  existing_ids(arg.exemptions_list[i], book_ids)],
                              LAMBDA l : Len(l) > 0)
            ELSE ret'.author_exemptions = arg.exemptions_list ]_vars

(***************************************************************************)
(* C6, as stated.  For a library with no stored record and no legacy       *)
(* entry, get_library_config returns the defaults and afterwards the       *)
(* per-library store holds that record.                                    *)
(***************************************************************************)
C6_Original ==
    ( /\ op = "get_library_config"
      /\ ~HasStored(pre.db_prefs)
      /\ ~HasLegacyEntry(pre.plugin_prefs) ) =>
        /\ ret.library_config = DEFAULT_LIBRARY_VALUES
        /\ HasStored(db_prefs)
        /\ StoredRecord(db_prefs) = DEFAULT_LIBRARY_VALUES

(***************************************************************************)
(* C6, amended.  For a library with no stored record and no legacy entry,  *)
(* get_library_config returns the defaults (lastLibraryCompare '', empty   *)
(* bookExemptions, empty authorExemptions, current SchemaVersion) and      *)
(* writes nothing: the per-library store still holds no record, and the    *)
(* legacy file is as it was.                                               *)
(***************************************************************************)
C6_DefaultsOnFirstAccess ==
    ( /\ op = "get_library_config"
      /\ ~HasStored(pre.db_prefs)
      /\ ~HasLegacyEntry(pre.plugin_prefs) ) =>
        /\ ret.library_config = DEFAULT_LIBRARY_VALUES
        /\ ret.library_config[KEY_LAST_LIBRARY_COMPARE] = ""
        /\ ret.library_config[KEY_BOOK_EXEMPTIONS] = <<>>
        /\ ret.library_config[KEY_AUTHOR_EXEMPTIONS] = <<>>
        /\ IsCurrent(ret.library_config)
        /\ ~HasStored(db_prefs)
        /\ plugin_prefs = pre.plugin_prefs

\* get_library_config has been called on a library nothing is stored for
C6_Witness ==
    /\ op = "get_library_config"
    /\ ~HasStored(pre.db_prefs)
    /\ ~HasLegacyEntry(pre.plugin_prefs)
    /\ ret.library_config = DEFAULT_LIBRARY_VALUES

\* the keys a record may hold, but for config_key and the schema version
OtherKeys(config_key) ==
    {KEY_LAST_LIBRARY_COMPARE, KEY_BOOK_EXEMPTIONS, KEY_AUTHOR_EXEMPTIONS,
     "bookNotDuplicates", "authorNotDuplicates"} \ {config_key}

\* what C7 says of the step to the primed state, the other keys being kept
\* from the record `before`
Overwritten(before) ==
    /\ op' = "set_exemption_list" =>
        /\ HasStored(db_prefs')
        /\ DictHas(StoredRecord(db_prefs'), arg'.config_key)
        /\ StoredRecord(db_prefs')[arg'.config_key] = arg'.exemptions_list
        /\ \A k \in OtherKeys(arg'.config_key) :
              SameAt(StoredRecord(db_prefs'), before, k)
        /\ IsCurrent(StoredRecord(db_prefs'))
    /\ (op = "set_exemption_list" /\ op' = "get_library_config") =>
        /\ DictHas(ret'.library_config, arg.config_key)
        /\ ret'.library_config[arg.config_key] = arg.exemptions_list

(***************************************************************************)
(* C7, as stated.  After set_exemption_list(db, k, L) the stored record's  *)
(* k equals L, every other key of the stored record keeps the value it     *)
(* had before the call (SchemaVersion being brought to the current         *)
(* version), and a following get_library_config returns a record whose k   *)
(* equals L.                                                               *)
(***************************************************************************)
C7_Original ==
    [][ HasStored(db_prefs) => Overwritten(StoredRecord(db_prefs)) ]_vars

(***************************************************************************)
(* C7, amended.  After set_exemption_list(db, k, L) the stored record's k  *)
(* equals L, every other key of the stored record has the value it had,    *)
(* before the call, in the library's record (the legacy entry of the       *)
(* library when the legacy file has one, else the stored record, else the  *)
(* defaults), SchemaVersion is the current version, and a following        *)
(* get_library_config returns a record whose k equals L.                   *)
(***************************************************************************)
C7_OverwriteOnSave ==
    [][ Overwritten(LibraryRecord(plugin_prefs, db_prefs)) ]_vars

\* a list has been saved over a different one, one held by a legacy entry
C7_Witness ==
    /\ op = "set_exemption_list"
    /\ HasLegacyEntry(pre.plugin_prefs)
    /\ arg.config_key = KEY_BOOK_EXEMPTIONS
    /\ Len(arg.exemptions_list) > 0
    /\ LegacyEntry(pre.plugin_prefs)[KEY_BOOK_EXEMPTIONS] # arg.exemptions_list
    /\ StoredRecord(db_prefs)[KEY_BOOK_EXEMPTIONS] = arg.exemptions_list

(***************************************************************************)
(* C8.  The record get_library_config returns has the current              *)
(* SchemaVersion, and after any call of get_library_config,                *)
(* get_exemption_lists or set_exemption_list the record the per-library    *)
(* store holds, if it holds one, has the current SchemaVersion.            *)
(***************************************************************************)
C8_SchemaMarked ==
    /\ op = "get_library_config" => IsCurrent(ret.library_config)
    /\ ( /\ op \in {"get_library_config", "get_exemption_lists",
                    "set_exemption_list"}
         /\ HasStored(db_prefs) ) => IsCurrent(StoredRecord(db_prefs))

(***************************************************************************)
(* C9.  Whenever the per-library store holds a record after                *)
(* get_exemption_lists, the two lists returned equal the bookExemptions    *)
(* and authorExemptions of that record, an absent key counting as the      *)
(* empty list.                                                             *)
(***************************************************************************)
C9_ReturnedAgreesWithStored ==
    (op = "get_exemption_lists" /\ HasStored(db_prefs)) =>
        /\ ret.book_exemptions =
              DictGet(StoredRecord(db_prefs), KEY_BOOK_EXEMPTIONS, <<>>)
        /\ ret.author_exemptions =
              DictGet(StoredRecord(db_prefs), KEY_AUTHOR_EXEMPTIONS, <<>>)

=============================================================================
